---------------------------- MODULE Spec2Model ----------------------------
(***************************************************************************)
(* A model of the GitHub proxy server (src/server.js): the Express route   *)
(* chain, the outbound call of each handler, and the shaping of the        *)
(* upstream reply into the response.                                       *)
(*                                                                         *)
(* Strings that the code inspects (the request path, githubPath) are       *)
(* sequences of tokens; "/" is a token of its own and every other token is *)
(* a run of characters without "/".  JSON values are tagged records.       *)
(***************************************************************************)
EXTENDS Integers, Sequences, FiniteSets, TLC

VARIABLES pc, path, trail, call, reply, resp, fetches, sends

vars == <<pc, path, trail, call, reply, resp, fetches, sends>>

(***************************************************************************)
(* Bounds of the model.                                                    *)
(***************************************************************************)
NReq == 2
MaxSuffix == 5
MaxDays == 3
MaxEdges == 3

Reqs == 1..NReq

(***************************************************************************)
(* JSON values.                                                            *)
(***************************************************************************)
Undefined == [t |-> "undefined"]
Null == [t |-> "null"]
Str(s) == [t |-> "string", v |-> s]
Num(n) == [t |-> "number", v |-> n]
Arr(s) == [t |-> "array", v |-> s]
Obj(f) == [t |-> "object", v |-> f]
EmptyObj == Obj(<<>>)

\* obj.key on an object: the member, or undefined when the key is absent.
Get(j, k) == IF j.t = "object" /\ k \in DOMAIN j.v THEN j.v[k] ELSE Undefined

\* obj?.key: undefined when obj is null or undefined.
Opt(j, k) == IF j.t \in {"undefined", "null"} THEN Undefined ELSE Get(j, k)

\* JavaScript truthiness, as `if (x)` and `!x` test it.
Truthy(j) ==
  CASE j.t \in {"undefined", "null"} -> FALSE
    [] j.t = "string" -> j.v # ""
    [] j.t = "number" -> j.v # 0
    [] OTHER -> TRUE

(***************************************************************************)
(* Strings as token sequences.  Paths are taken as Express hands them to   *)
(* the routes: already decoded, without the query string, in lower case.   *)
(***************************************************************************)
\* String.prototype.includes
Includes(s, sub) ==
  \E i \in 0..(Len(s) - Len(sub)) : SubSeq(s, i + 1, i + Len(sub)) = sub

StartsWith(s, p) == Len(s) >= Len(p) /\ SubSeq(s, 1, Len(p)) = p

\* Express matches a route with or without one trailing "/" (strict routing off).
StripSlash(s) ==
  IF Len(s) > 1 /\ s[Len(s)] = "/" THEN SubSeq(s, 1, Len(s) - 1) ELSE s

ApiPrefix == <<"/", "api", "/", "github", "/">>
UsersPrefix == ApiPrefix \o <<"users", "/">>

\* app.get("/", ...)
MatchHome(p) == p = <<"/">>

\* app.get("/api/github/*", ...): the wildcard takes the rest of the path.
MatchGeneric(p) == StartsWith(p, ApiPrefix)

\* req.params[0] of the wildcard route
Params0(p) == SubSeq(p, Len(ApiPrefix) + 1, Len(p))

\* app.get("/api/github/users/:username/<name>", ...): :username is one
\* non-empty segment, <name> the last segment.
MatchUserRoute(p, name) ==
  LET q == StripSlash(p)
      n == Len(q)
  IN  /\ StartsWith(q, UsersPrefix)
      /\ n >= Len(UsersPrefix) + 3
      /\ q[n] = name
      /\ q[n - 1] = "/"
      /\ \A i \in (Len(UsersPrefix) + 1)..(n - 2) : q[i] # "/"

\* req.params.username
Username(p) ==
  LET q == StripSlash(p) IN SubSeq(q, Len(UsersPrefix) + 1, Len(q) - 2)

\* app.get("/detailed-activity", ...)
MatchBareDetailed(p) == StripSlash(p) = <<"/", "detailed-activity">>

\* The names of the four GraphQL routes in registration order.
UserRoutes == <<"contributions", "pinned", "top-languages", "detailed-activity">>

\* The skip test of the generic handler.
SkipProxyNoSlash(githubPath) ==
  \/ Includes(githubPath, <<"detailed-activity">>)
  \/ Includes(githubPath, <<"top-languages">>)
  \/ Includes(githubPath, <<"pinned">>)
  \/ Includes(githubPath, <<"contributions">>)

SkipProxy(githubPath) ==
  \/ Includes(githubPath, <<"/", "detailed-activity">>)
  \/ Includes(githubPath, <<"/", "top-languages">>)
  \/ Includes(githubPath, <<"/", "pinned">>)
  \/ Includes(githubPath, <<"/", "contributions">>)

(***************************************************************************)
(* Responses and outbound calls.                                           *)
(***************************************************************************)
NoCall == [kind |-> "none"]
NoReply == [t |-> "none"]
NoResp == [status |-> 0, body |-> Undefined]

Response(status, body) == [status |-> status, body |-> body]

RestCall(githubPath) ==
  [kind |-> "REST", url |-> <<"https://api.github.com/">> \o githubPath]

GraphqlCall(route, username) ==
  [kind |-> "GRAPHQL", url |-> <<"https://api.github.com/graphql">>,
   route |-> route, username |-> username]

HomeResponse == Response(200, [t |-> "text", v |-> "GitHub Proxy Server is Running!"])

BareDetailedResponse ==
  Response(400, Obj([error |-> Str("Invalid endpoint"),
                     message |-> Str("This endpoint requires a username. Use /api/github/users/:username/detailed-activity instead.")]))

\* No route matched: Express's final handler answers 404 "Cannot GET <path>".
FinalHandlerResponse(p) == Response(404, [t |-> "text", v |-> <<"Cannot GET ">> \o p])

(***************************************************************************)
(* The synchronous part of the route chain: from the arrival of a request  *)
(* to the first await (an outbound call) or to the response.               *)
(***************************************************************************)
Outcome(tr, c, rs) == [trail |-> tr, call |-> c, resp |-> rs]

\* The first of the four GraphQL routes that matches p, 0 when none does.
FirstUserRoute(p) ==
  IF \E i \in 1..Len(UserRoutes) : MatchUserRoute(p, UserRoutes[i])
  THEN CHOOSE i \in 1..Len(UserRoutes) :
         /\ MatchUserRoute(p, UserRoutes[i])
         /\ \A j \in 1..(i - 1) : ~MatchUserRoute(p, UserRoutes[j])
  ELSE 0

\* A GraphQL handler up to its await: one POST to the GraphQL endpoint.
UserRouteEnter(p, tr, i) ==
  Outcome(Append(tr, UserRoutes[i]), GraphqlCall(UserRoutes[i], Username(p)), NoResp)

\* The routes registered after the generic one, tried in order.
LaterRoutes(p, tr) ==
  IF FirstUserRoute(p) # 0 THEN UserRouteEnter(p, tr, FirstUserRoute(p))
  ELSE IF MatchBareDetailed(p)
       THEN Outcome(Append(tr, "/detailed-activity"), NoCall, BareDetailedResponse)
       ELSE Outcome(Append(tr, "finalhandler"), NoCall, FinalHandlerResponse(p))

\* The generic handler up to its await: next() for a reserved path, else one GET.
ProxyEnter(p, tr) ==
  LET githubPath == Params0(p)
  IN  IF SkipProxy(githubPath)
      THEN LaterRoutes(p, Append(tr, "proxy"))
      ELSE Outcome(Append(tr, "proxy"), RestCall(githubPath), NoResp)

\* The whole chain in registration order.
Dispatch(p) ==
  IF MatchHome(p) THEN Outcome(<<"home">>, NoCall, HomeResponse)
  ELSE IF MatchGeneric(p) THEN ProxyEnter(p, <<>>)
  ELSE LaterRoutes(p, <<>>)

(***************************************************************************)
(* Upstream replies and the handlers' continuations.                       *)
(***************************************************************************)
Unparseable == [t |-> "unparseable"]
Reject(msg) == [t |-> "reject", message |-> msg]
Reply(status, body) == [t |-> "response", status |-> status, body |-> body]

\* response.ok of node-fetch
Ok(status) == status >= 200 /\ status <= 299

\* An exception on its way to the handler's catch block.
Throw(msg) == [status |-> -1, body |-> Str(msg)]
IsThrow(x) == x.status = -1

\* catch (error) { res.status(500).json({ error: <label>, message: error.message }) }
Catch(x, label) ==
  IF IsThrow(x)
  THEN Response(500, Obj([error |-> Str(label), message |-> x.body]))
  ELSE x

InvalidJson == "invalid json response body"
TypeErrorUndefined == "Cannot read properties of undefined"
TypeErrorNull == "Cannot read properties of null"

\* The generic handler after its await.
ProxyTry(rep) ==
  IF rep.t = "reject" THEN Throw(rep.message)
  ELSE IF ~Ok(rep.status)
       THEN LET errorData == IF rep.body = Unparseable THEN EmptyObj ELSE rep.body
            IN  Response(rep.status,
                         Obj([error |-> Str("GitHub API error: " \o ToString(rep.status)),
                              details |-> errorData]))
       ELSE IF rep.body = Unparseable THEN Throw(InvalidJson)
            ELSE Response(200, rep.body)

ProxySettle(rep) == Catch(ProxyTry(rep), "Failed to fetch data from GitHub")

\* throw new Error(data.errors[0].message): the message of the thrown error.
FirstErrorMessage(errors) ==
  IF errors.t = "array" /\ Len(errors.v) > 0
  THEN LET e == errors.v[1]
       IN  CASE e.t = "undefined" -> TypeErrorUndefined
             [] e.t = "null" -> TypeErrorNull
             [] OTHER -> IF Get(e, "message").t = "string"
                         THEN Get(e, "message").v ELSE ""
  ELSE TypeErrorUndefined

\* res.status(404).json({ error: <label>, rawResponse: data })
NotFoundDataOnly(label, data) ==
  Response(404, Obj([error |-> Str(label), rawResponse |-> Get(data, "data")]))

NotFound(label, data) ==
  Response(404, Obj([error |-> Str(label), rawResponse |-> data]))

(***************************************************************************)
(* The contributions route: the calendar flattened.                        *)
(***************************************************************************)
DayRecord(day) ==
  Obj([date |-> Get(day, "date"),
       count |-> Get(day, "contributionCount"),
       color |-> Get(day, "color")])

\* week.contributionDays.forEach((day) => contributions.push(...))
RECURSIVE PushDays(_, _)
PushDays(contributions, days) ==
  IF days = <<>> THEN contributions
  ELSE PushDays(Append(contributions, DayRecord(Head(days))), Tail(days))

\* calendar.weeks.forEach((week) => ...)
RECURSIVE PushWeeks(_, _)
PushWeeks(contributions, weeks) ==
  IF weeks = <<>> THEN contributions
  ELSE PushWeeks(PushDays(contributions, Get(Head(weeks), "contributionDays").v),
                 Tail(weeks))

ContributionsShape(data) ==
  LET calendar == Opt(Opt(Opt(Opt(data, "data"), "user"), "contributionsCollection"),
                      "contributionCalendar")
  IN  IF ~Truthy(calendar) THEN NotFound("Contribution data not found", data)
      ELSE IF Get(calendar, "weeks").t # "array" THEN Throw(TypeErrorUndefined)
      ELSE Response(200,
             Obj([totalContributions |-> Get(calendar, "totalContributions"),
                  contributions |-> Arr(PushWeeks(<<>>, Get(calendar, "weeks").v))]))

(***************************************************************************)
(* The pinned and detailed-activity routes: the upstream value unchanged.  *)
(***************************************************************************)
PinnedShape(data) ==
  LET nodes == Opt(Opt(Opt(Opt(data, "data"), "user"), "pinnedItems"), "nodes")
  IN  IF ~Truthy(nodes) THEN NotFound("Pinned repositories not found", data)
      ELSE Response(200, nodes)

DetailedShape(data) ==
  LET cc == Opt(Opt(Opt(data, "data"), "user"), "contributionsCollection")
  IN  IF ~Truthy(cc) THEN NotFound("Detailed activity data not found", data)
      ELSE Response(200, cc)

(***************************************************************************)
(* The top-languages route.  The object `languages` is the sequence of its *)
(* entries in insertion order, the order Object.keys lists them in (no      *)
(* language name is an integer index).                                     *)
(***************************************************************************)
\* The position of languages[name], 0 when there is no such entry.
IndexOf(languages, name) ==
  IF \E i \in 1..Len(languages) : languages[i].name = name
  THEN CHOOSE i \in 1..Len(languages) : languages[i].name = name
  ELSE 0

\* The body of repo.languages.edges.forEach; acc is (languages, totalSize).
AddEdgeOverwriteColor(acc, edge) ==
  LET name == Get(Get(edge, "node"), "name").v
      color == Get(Get(edge, "node"), "color")
      size == Get(edge, "size").v
      entered == IF IndexOf(acc.languages, name) = 0
                 THEN Append(acc.languages, [name |-> name, size |-> 0, color |-> color])
                 ELSE acc.languages
      i == IndexOf(entered, name)
  IN  [languages |-> [entered EXCEPT ![i].size = @ + size, ![i].color = color],
       totalSize |-> acc.totalSize + size]

AddEdge(acc, edge) ==
  LET name == Get(Get(edge, "node"), "name").v
      color == Get(Get(edge, "node"), "color")
      size == Get(edge, "size").v
      entered == IF IndexOf(acc.languages, name) = 0
                 THEN Append(acc.languages, [name |-> name, size |-> 0, color |-> color])
                 ELSE acc.languages
      i == IndexOf(entered, name)
  IN  [languages |-> [entered EXCEPT ![i].size = @ + size],
       totalSize |-> acc.totalSize + size]

RECURSIVE AddEdges(_, _)
AddEdges(acc, edges) ==
  IF edges = <<>> THEN acc ELSE AddEdges(AddEdge(acc, Head(edges)), Tail(edges))

\* data.data.user.repositories.nodes.forEach((repo) => ...)
RECURSIVE AddRepos(_, _)
AddRepos(acc, nodes) ==
  IF nodes = <<>> THEN acc
  ELSE LET edges == Opt(Get(Head(nodes), "languages"), "edges")
       IN  AddRepos(IF Truthy(edges) THEN AddEdges(acc, edges.v) ELSE acc, Tail(nodes))

\* ((size / totalSize) * 100).toFixed(1), in tenths of a percent: the nearest
\* tenth, a tie going up.
PercentageTenths(size, totalSize) == (size * 2000 + totalSize) \div (2 * totalSize)

Percentage(size, totalSize) ==
  LET n == PercentageTenths(size, totalSize)
  IN  ToString(n \div 10) \o "." \o ToString(n % 10)

\* One step of languageArray.sort((a, b) => b.size - a.size): the sort is
\* stable, so x goes behind every element that does not sort after it.
InsertBeforeEqual(sorted, x) ==
  LET k == Cardinality({i \in 1..Len(sorted) : sorted[i].size > x.size})
  IN  SubSeq(sorted, 1, k) \o <<x>> \o SubSeq(sorted, k + 1, Len(sorted))

InsertSorted(sorted, x) ==
  LET k == Cardinality({i \in 1..Len(sorted) : sorted[i].size >= x.size})
  IN  SubSeq(sorted, 1, k) \o <<x>> \o SubSeq(sorted, k + 1, Len(sorted))

RECURSIVE SortBySize(_, _)
SortBySize(sorted, rest) ==
  IF rest = <<>> THEN sorted
  ELSE SortBySize(InsertSorted(sorted, Head(rest)), Tail(rest))

\* Object.keys(languages).map((name) => ({ name, color, size, percentage }))
LanguageArray(languages, totalSize) ==
  [i \in 1..Len(languages) |->
     [name |-> languages[i].name,
      color |-> languages[i].color,
      size |-> languages[i].size,
      percentage |-> Percentage(languages[i].size, totalSize)]]

\* What the route emits for a repository list, as a sequence of records.
TopLanguages(nodes) ==
  LET acc == AddRepos([languages |-> <<>>, totalSize |-> 0], nodes)
  IN  IF acc.totalSize = 0 THEN <<>>
      ELSE SortBySize(<<>>, LanguageArray(acc.languages, acc.totalSize))

LanguageJson(l) ==
  Obj([name |-> Str(l.name), color |-> l.color, size |-> Num(l.size),
       percentage |-> Str(l.percentage)])

TopLanguagesShape(data) ==
  LET nodes == Opt(Opt(Opt(Opt(data, "data"), "user"), "repositories"), "nodes")
  IN  IF ~Truthy(nodes) THEN NotFound("Repository language data not found", data)
      ELSE IF nodes.t # "array" THEN Throw(TypeErrorUndefined)
      ELSE LET out == TopLanguages(nodes.v)
           IN  Response(200, Arr([i \in 1..Len(out) |-> LanguageJson(out[i])]))

(***************************************************************************)
(* A GraphQL handler after its await.                                      *)
(***************************************************************************)
RouteShape(route, data) ==
  CASE route = "contributions" -> ContributionsShape(data)
    [] route = "pinned" -> PinnedShape(data)
    [] route = "top-languages" -> TopLanguagesShape(data)
    [] route = "detailed-activity" -> DetailedShape(data)

FailureLabel(route) ==
  CASE route = "contributions" -> "Failed to fetch contribution data"
    [] route = "pinned" -> "Failed to fetch pinned repositories"
    [] route = "top-languages" -> "Failed to fetch top languages"
    [] route = "detailed-activity" -> "Failed to fetch detailed activity"

\* The try block: the reply's status is never looked at.
GraphqlTry(route, rep) ==
  IF rep.t = "reject" THEN Throw(rep.message)
  ELSE IF rep.body = Unparseable THEN Throw(InvalidJson)
  ELSE IF rep.body.t = "null" THEN Throw(TypeErrorNull)
  ELSE IF Truthy(Get(rep.body, "errors"))
       THEN Throw(FirstErrorMessage(Get(rep.body, "errors")))
       ELSE RouteShape(route, rep.body)

GraphqlSettle(route, rep) == Catch(GraphqlTry(route, rep), FailureLabel(route))

\* The continuation of the handler that issued call c, given the reply.
Settle(c, rep) ==
  IF c.kind = "REST" THEN ProxySettle(rep) ELSE GraphqlSettle(c.route, rep)

(***************************************************************************)
(* What the clients send and what the upstream answers.                    *)
(***************************************************************************)
UserPath(username, name) == UsersPrefix \o username \o <<"/", name>>

\* Request paths of the server under concurrent load.
RequestPaths ==
  { <<"/">>,
    <<"/", "detailed-activity">>,
    <<"/", "favicon.ico">>,
    ApiPrefix \o <<"repos", "/", "foo">>,
    ApiPrefix \o <<"repos", "/", "my-", "pinned">>,
    ApiPrefix \o <<"pinned", "/", "foo">>,
    ApiPrefix \o <<"users", "/", "pinned">>,
    ApiPrefix \o <<"repos", "/", "foo", "/", "contributions">>,
    UserPath(<<"alice">>, "contributions"),
    UserPath(<<"alice">>, "pinned"),
    UserPath(<<"alice">>, "top-languages"),
    UserPath(<<"alice">>, "detailed-activity"),
    UserPath(<<"bob">>, "pinned") \o <<"/">> }

\* The tokens of the suffixes tried in full.
SuffixTokens == {"/", "users", "al", "pinned", "contributions"}

RECURSIVE SuffixesOfLen(_)
SuffixesOfLen(n) ==
  IF n = 0 THEN {<<>>}
  ELSE {Append(s, tok) : s \in SuffixesOfLen(n - 1), tok \in SuffixTokens}

\* Every path under /api/github/ whose suffix has at most MaxSuffix tokens.
ApiPaths == {ApiPrefix \o s : s \in UNION {SuffixesOfLen(n) : n \in 0..MaxSuffix}}

\* Days of a contribution calendar: the date tells the day's place.
DayJson(w, d, count) ==
  Obj([date |-> Str("w" \o ToString(w) \o "d" \o ToString(d)),
       contributionCount |-> Num(count),
       color |-> Str(IF count = 0 THEN "#ebedf0" ELSE "#40c463")])

WeekJson(w, counts) ==
  Obj([contributionDays |-> Arr([d \in 1..Len(counts) |-> DayJson(w, d, counts[d])])])

\* weeks: a sequence of weeks, each the sequence of its days' counts.
CalendarJson(total, weeks) ==
  Obj([totalContributions |-> Num(total),
       weeks |-> Arr([w \in 1..Len(weeks) |-> WeekJson(w, weeks[w])])])

CalendarUser(calendar) ==
  Obj([contributionsCollection |-> Obj([contributionCalendar |-> calendar])])

\* A language edge; pos, the edge's place in the reply, tells its colour.
EdgeJson(name, size, pos) ==
  Obj([size |-> Num(size),
       node |-> Obj([name |-> Str(name), color |-> Str("c" \o ToString(pos))])])

\* A repository with the edges es[from..to] of a flat edge list.
RepoJson(es, from, to) ==
  Obj([name |-> Str("repo"),
       languages |-> Obj([edges |-> Arr([i \in 1..(to - from + 1) |->
                            EdgeJson(es[from + i - 1].name, es[from + i - 1].size,
                                     from + i - 1)])])])

NoLanguagesRepo == Obj([name |-> Str("empty"), languages |-> Null])

RepositoriesUser(nodes) == Obj([repositories |-> Obj([nodes |-> Arr(nodes)])])

PinnedUser ==
  Obj([pinnedItems |-> Obj([nodes |-> Arr(<<Obj([name |-> Str("dotfiles"),
                                                 stargazerCount |-> Num(3)])>>)])])

DetailedUser ==
  Obj([contributionsCollection |->
         Obj([commitContributionsByRepository |-> Arr(<<>>)])])

SampleEdges == <<[name |-> "JavaScript", size |-> 2], [name |-> "Go", size |-> 1],
                 [name |-> "Go", size |-> 1]>>

\* A well-formed user object for each GraphQL route.
SampleUser(route) ==
  CASE route = "contributions" -> CalendarUser(CalendarJson(2, <<<<1, 1>>>>))
    [] route = "pinned" -> PinnedUser
    [] route = "top-languages" ->
         RepositoriesUser(<<RepoJson(SampleEdges, 1, 2), RepoJson(SampleEdges, 3, 3)>>)
    [] route = "detailed-activity" -> DetailedUser

GqlError(m) == Obj([message |-> Str(m)])

\* The bodies a GraphQL reply may carry around a user object.
GraphqlBodies(user) ==
  { Obj([data |-> Obj([user |-> user])]),
    Obj([data |-> Obj([user |-> user]), errors |-> Arr(<<>>)]),
    Obj([data |-> Obj([user |-> user]), errors |-> Arr(<<GqlError("partial")>>)]),
    Obj([data |-> Null,
         errors |-> Arr(<<GqlError("Could not resolve to a User"), GqlError("second")>>)]),
    Obj([data |-> Obj([user |-> Null])]),
    Obj([data |-> Obj([user |-> Null]), errors |-> Arr(<<>>)]) }

GraphqlReplies(route) ==
  {Reject("ECONNRESET"),
   Reply(502, Unparseable),
   Reply(401, Obj([message |-> Str("Bad credentials")]))}
    \cup {Reply(200, b) : b \in GraphqlBodies(SampleUser(route))}

RestReplies ==
  { Reject("ECONNRESET"),
    Reply(200, Obj([login |-> Str("octocat")])),
    Reply(200, Unparseable),
    Reply(404, Obj([message |-> Str("Not Found")])),
    Reply(404, Unparseable),
    Reply(403, Obj([message |-> Str("API rate limit exceeded")])) }

\* The key of a call in a table of reply sets.
ReplyKey(c) == IF c.kind = "REST" THEN "REST" ELSE c.route

ReplyKeys == {"REST"} \cup {UserRoutes[i] : i \in 1..Len(UserRoutes)}

SampleReplies ==
  [k \in ReplyKeys |-> IF k = "REST" THEN RestReplies ELSE GraphqlReplies(k)]

(***************************************************************************)
(* The server.                                                             *)
(***************************************************************************)
Init ==
  /\ pc = [r \in Reqs |-> "idle"]
  /\ path = [r \in Reqs |-> <<>>]
  /\ trail = [r \in Reqs |-> <<>>]
  /\ call = [r \in Reqs |-> NoCall]
  /\ reply = [r \in Reqs |-> NoReply]
  /\ resp = [r \in Reqs |-> NoResp]
  /\ fetches = [r \in Reqs |-> 0]
  /\ sends = [r \in Reqs |-> 0]

\* A request arrives and runs through the route chain up to its first await.
Receive(r, paths) ==
  /\ pc[r] = "idle"
  /\ \E p \in paths :
       LET d == Dispatch(p)
       IN  /\ path' = [path EXCEPT ![r] = p]
           /\ trail' = [trail EXCEPT ![r] = d.trail]
           /\ call' = [call EXCEPT ![r] = d.call]
           /\ resp' = [resp EXCEPT ![r] = d.resp]
           /\ fetches' = [fetches EXCEPT ![r] = IF d.call = NoCall THEN @ ELSE @ + 1]
           /\ sends' = [sends EXCEPT ![r] = IF d.call = NoCall THEN @ + 1 ELSE @]
           /\ pc' = [pc EXCEPT ![r] = IF d.call = NoCall THEN "done" ELSE "await"]
  /\ UNCHANGED reply

\* The upstream answers the call of request r, or the call fails.
UpstreamReply(r, replies) ==
  /\ pc[r] = "await"
  /\ \E rep \in replies[ReplyKey(call[r])] :
       reply' = [reply EXCEPT ![r] = rep]
  /\ pc' = [pc EXCEPT ![r] = "settled"]
  /\ UNCHANGED <<path, trail, call, resp, fetches, sends>>

\* The handler of request r resumes after its await and responds.
RespondOrRetry(r) ==
  /\ pc[r] = "settled"
  /\ IF reply[r].t = "reject"
     THEN /\ fetches' = [fetches EXCEPT ![r] = @ + 1]
          /\ pc' = [pc EXCEPT ![r] = "await"]
          /\ UNCHANGED <<resp, sends>>
     ELSE /\ resp' = [resp EXCEPT ![r] = Settle(call[r], reply[r])]
          /\ sends' = [sends EXCEPT ![r] = @ + 1]
          /\ pc' = [pc EXCEPT ![r] = "done"]
          /\ UNCHANGED fetches
  /\ UNCHANGED <<path, trail, call, reply>>

RespondFromShared(r) ==
  /\ pc[r] = "settled"
  /\ \E q \in Reqs :
       /\ reply[q] # NoReply
       /\ ReplyKey(call[q]) = ReplyKey(call[r])
       /\ resp' = [resp EXCEPT ![r] = Settle(call[r], reply[q])]
  /\ sends' = [sends EXCEPT ![r] = @ + 1]
  /\ pc' = [pc EXCEPT ![r] = "done"]
  /\ UNCHANGED <<path, trail, call, reply, fetches>>

Respond(r) ==
  /\ pc[r] = "settled"
  /\ resp' = [resp EXCEPT ![r] = Settle(call[r], reply[r])]
  /\ sends' = [sends EXCEPT ![r] = @ + 1]
  /\ pc' = [pc EXCEPT ![r] = "done"]
  /\ UNCHANGED <<path, trail, call, reply, fetches>>

\* The paths of the requests handled concurrently.
ConcurrentPaths ==
  { <<"/">>,
    ApiPrefix \o <<"repos", "/", "foo">>,
    ApiPrefix \o <<"users", "/", "pinned">>,
    UserPath(<<"alice">>, "contributions"),
    UserPath(<<"bob">>, "pinned"),
    UserPath(<<"alice">>, "top-languages") }

Next ==
  \E r \in Reqs :
    \/ Receive(r, ConcurrentPaths)
    \/ UpstreamReply(r, SampleReplies)
    \/ Respond(r)

Spec == Init /\ [][Next]_vars

(***************************************************************************)
(* One request over every path: the route chain.                           *)
(***************************************************************************)
RoutePaths == RequestPaths \cup ApiPaths

NextRoute ==
  \/ Receive(1, RoutePaths)
  \/ UpstreamReply(1, SampleReplies)
  \/ Respond(1)

SpecRoute == Init /\ [][NextRoute]_vars

(***************************************************************************)
(* One contributions request over every small calendar.                    *)
(***************************************************************************)
RECURSIVE CountsOfLen(_)
CountsOfLen(n) ==
  IF n = 0 THEN {<<>>}
  ELSE {Append(s, c) : s \in CountsOfLen(n - 1), c \in {0, 1}}

CountSeqs == UNION {CountsOfLen(n) : n \in 0..MaxDays}

\* No week, one week or two weeks of days.
WeekLists ==
  {<<>>} \cup {<<a>> : a \in CountSeqs} \cup {<<a, b>> : a \in CountSeqs, b \in CountSeqs}

Calendars ==
  {CalendarJson(total, weeks) :
     total \in {0, 3},
     weeks \in {ws \in WeekLists : Len(ws) < 2 \/ Len(ws[1]) + Len(ws[2]) <= MaxDays}}

CalendarReplies ==
  {Reply(200, b) : b \in UNION {GraphqlBodies(CalendarUser(c)) : c \in Calendars}}

CalendarTable ==
  [k \in ReplyKeys |-> IF k = "contributions" THEN CalendarReplies ELSE {}]

NextCal ==
  \/ Receive(1, {UserPath(<<"alice">>, "contributions")})
  \/ UpstreamReply(1, CalendarTable)
  \/ Respond(1)

SpecCal == Init /\ [][NextCal]_vars

(***************************************************************************)
(* One top-languages request over every small repository list.             *)
(***************************************************************************)
LangNames == {"Go", "JavaScript", "Rust"}
Sizes == {0, 1, 2}

RECURSIVE EdgesOfLen(_)
EdgesOfLen(n) ==
  IF n = 0 THEN {<<>>}
  ELSE {Append(s, [name |-> nm, size |-> sz]) :
          s \in EdgesOfLen(n - 1), nm \in LangNames, sz \in Sizes}

EdgeLists == UNION {EdgesOfLen(n) : n \in 0..MaxEdges}

\* The edges of a flat list given to two repositories, around one repository
\* that has no languages.
RepoLists ==
  {<<RepoJson(c[1], 1, c[2]), NoLanguagesRepo, RepoJson(c[1], c[2] + 1, Len(c[1]))>> :
     c \in {d \in EdgeLists \X (0..MaxEdges) : d[2] <= Len(d[1])}}

LanguageReplies ==
  {Reply(200, Obj([data |-> Obj([user |-> RepositoriesUser(nodes)])])) :
     nodes \in RepoLists}

LanguageTable ==
  [k \in ReplyKeys |-> IF k = "top-languages" THEN LanguageReplies ELSE {}]

NextLang ==
  \/ Receive(1, {UserPath(<<"alice">>, "top-languages")})
  \/ UpstreamReply(1, LanguageTable)
  \/ Respond(1)

SpecLang == Init /\ [][NextLang]_vars

(***************************************************************************)
(* The single-route server of src/unnamed/part_000: the generic route      *)
(* alone, with no reserved paths, no status check and no catch.            *)
(***************************************************************************)
LegacyDispatch(p) ==
  IF MatchGeneric(p)
  THEN Outcome(<<"proxy">>, RestCall(Params0(p)), NoResp)
  ELSE Outcome(<<"finalhandler">>, NoCall, FinalHandlerResponse(p))

LegacyReceive(r, paths) ==
  /\ pc[r] = "idle"
  /\ \E p \in paths :
       LET d == LegacyDispatch(p)
       IN  /\ path' = [path EXCEPT ![r] = p]
           /\ trail' = [trail EXCEPT ![r] = d.trail]
           /\ call' = [call EXCEPT ![r] = d.call]
           /\ resp' = [resp EXCEPT ![r] = d.resp]
           /\ fetches' = [fetches EXCEPT ![r] = IF d.call = NoCall THEN @ ELSE @ + 1]
           /\ sends' = [sends EXCEPT ![r] = IF d.call = NoCall THEN @ + 1 ELSE @]
           /\ pc' = [pc EXCEPT ![r] = IF d.call = NoCall THEN "done" ELSE "await"]
  /\ UNCHANGED reply

\* res.json(data) whatever the upstream status; a failed call or a body that
\* does not parse rejects the handler's promise and no response is sent.
LegacyRespond(r) ==
  /\ pc[r] = "settled"
  /\ IF reply[r].t = "reject" \/ reply[r].body = Unparseable
     THEN /\ pc' = [pc EXCEPT ![r] = "rejected"]
          /\ UNCHANGED <<resp, sends>>
     ELSE /\ resp' = [resp EXCEPT ![r] = Response(200, reply[r].body)]
          /\ sends' = [sends EXCEPT ![r] = @ + 1]
          /\ pc' = [pc EXCEPT ![r] = "done"]
  /\ UNCHANGED <<path, trail, call, reply, fetches>>

NextLegacy ==
  \/ LegacyReceive(1, RoutePaths)
  \/ UpstreamReply(1, SampleReplies)
  \/ LegacyRespond(1)

SpecLegacy == Init /\ [][NextLegacy]_vars

(***************************************************************************)
(* Vocabulary of the properties.                                           *)
(***************************************************************************)
ReservedWords == {"detailed-activity", "top-languages", "pinned", "contributions"}

\* s contains one of the four reserved words.
NamesReserved(s) == \E w \in ReservedWords : Includes(s, <<w>>)

\* s contains one of the four reserved words right after a "/".
NamesSlashReserved(s) == \E w \in ReservedWords : Includes(s, <<"/", w>>)

\* Request r was forwarded to https://api.github.com/<suffix>.
Forwarded(r) ==
  /\ fetches[r] = 1
  /\ call[r] = [kind |-> "REST",
                url |-> <<"https://api.github.com/">> \o Params0(path[r])]

\* The generic handler of request r made no call and a later handler ran.
HandedOn(r) ==
  /\ Len(trail[r]) = 2
  /\ trail[r][1] = "proxy"
  /\ trail[r][2] # "proxy"
  /\ call[r].kind # "REST"

\* The reply of request r is an HTTP response whose body parses as JSON.
Parsed(r) == reply[r].t = "response" /\ reply[r].body # Unparseable

IsGraphql(r) == call[r].kind = "GRAPHQL"

\* j[keys[1]][keys[2]]..., undefined as soon as a member is missing.
RECURSIVE Dig(_, _)
Dig(j, keys) == IF keys = <<>> THEN j ELSE Dig(Opt(j, Head(keys)), Tail(keys))

\* Where each GraphQL route expects its data in the upstream body.
ExpectedAt(route) ==
  CASE route = "contributions" ->
         <<"data", "user", "contributionsCollection", "contributionCalendar">>
    [] route = "pinned" -> <<"data", "user", "pinnedItems", "nodes">>
    [] route = "top-languages" -> <<"data", "user", "repositories", "nodes">>
    [] route = "detailed-activity" -> <<"data", "user", "contributionsCollection">>

DataAbsent(r) ==
  Dig(reply[r].body, ExpectedAt(call[r].route)).t \in {"undefined", "null"}

\* The upstream body of request r carries a non-empty errors list.
HasErrors(r) ==
  LET errors == Get(reply[r].body, "errors")
  IN  errors.t = "array" /\ errors.v # <<>>

\* The upstream body of request r has an errors member, possibly an empty list.
HasErrorsMember(r) == Get(reply[r].body, "errors").t = "array"

\* The 500 envelope of a GraphQL route with the given message.
Failure(route, message) ==
  Response(500, Obj([error |-> Str(FailureLabel(route)), message |-> Str(message)]))

PropagatesStatus(r) ==
  /\ resp[r].status = reply[r].status
  /\ resp[r].body.t = "object"
  /\ DOMAIN resp[r].body.v = {"error", "details"}
  /\ Get(resp[r].body, "details") =
       IF reply[r].body = Unparseable THEN EmptyObj ELSE reply[r].body

(***************************************************************************)
(* C2: whatever the route, a non-success upstream status S reaches the     *)
(* caller as status S with {error, details}, details being the parsed      *)
(* upstream body, or {} when the body does not parse.                      *)
(***************************************************************************)
C2_NonSuccessPropagated ==
  \A r \in Reqs :
    (pc[r] = "done" /\ reply[r].t = "response" /\ ~Ok(reply[r].status)) =>
      PropagatesStatus(r)

\* The part of C2 that the code keeps: the REST pass-through.
C2_ProxyNonSuccessPropagated ==
  \A r \in Reqs :
    (pc[r] = "done" /\ call[r].kind = "REST" /\ reply[r].t = "response"
       /\ ~Ok(reply[r].status)) =>
      PropagatesStatus(r)

(***************************************************************************)
(* C3: a request whose path names a reserved word but matches none of the  *)
(* four GraphQL routes gets the fixed 400 response and is never forwarded  *)
(* to the upstream REST host.  Stated for the paths of the claim's own     *)
(* examples, /api/github/users/pinned and /api/github/repos/foo/           *)
(* contributions: the word follows a "/", so the generic handler hands     *)
(* the request on.                                                         *)
(***************************************************************************)
C3_MisroutedGets400 ==
  \A r \in Reqs :
    (pc[r] # "idle" /\ MatchGeneric(path[r]) /\ NamesSlashReserved(Params0(path[r]))
       /\ FirstUserRoute(path[r]) = 0) =>
      /\ call[r].kind # "REST"
      /\ pc[r] = "done" => resp[r] = BareDetailedResponse

\* What the code does for such paths under /api/github/: with "/" before the
\* word no route answers and the final handler sends 404; without it the
\* request is forwarded.
C3_MisroutedAsCoded ==
  \A r \in Reqs :
    (pc[r] # "idle" /\ MatchGeneric(path[r]) /\ NamesReserved(path[r])
       /\ FirstUserRoute(path[r]) = 0) =>
      IF NamesSlashReserved(Params0(path[r]))
      THEN pc[r] = "done" /\ resp[r] = FinalHandlerResponse(path[r]) /\ fetches[r] = 0
      ELSE Forwarded(r)

RECURSIVE DaysInOrder(_)
DaysInOrder(weeks) ==
  IF weeks = <<>> THEN <<>>
  ELSE Get(Head(weeks), "contributionDays").v \o DaysInOrder(Tail(weeks))

ExpectedContributions(calendar) ==
  LET days == DaysInOrder(Get(calendar, "weeks").v)
  IN  Obj([totalContributions |-> Get(calendar, "totalContributions"),
           contributions |->
             Arr([i \in 1..Len(days) |->
                    Obj([date |-> Get(days[i], "date"),
                         count |-> Get(days[i], "contributionCount"),
                         color |-> Get(days[i], "color")])])])

CalendarOf(r) == Dig(reply[r].body, ExpectedAt("contributions"))

(***************************************************************************)
(* C4: on the contributions route, an upstream body with a calendar and no *)
(* GraphQL errors yields {totalContributions, contributions}: one          *)
(* {date, count, color} record per upstream day, none dropped or doubled,  *)
(* weeks first and days within each week, and the upstream total           *)
(* unchanged.                                                              *)
(***************************************************************************)
C4_CalendarFlattened ==
  \A r \in Reqs :
    (pc[r] = "done" /\ IsGraphql(r) /\ call[r].route = "contributions"
       /\ Parsed(r) /\ ~DataAbsent(r) /\ ~HasErrors(r)) =>
      resp[r] = Response(200, ExpectedContributions(CalendarOf(r)))

\* The same for the bodies that have no errors member at all.
C4_CalendarFlattenedWithoutErrorsMember ==
  \A r \in Reqs :
    (pc[r] = "done" /\ IsGraphql(r) /\ call[r].route = "contributions"
       /\ Parsed(r) /\ ~DataAbsent(r) /\ ~HasErrorsMember(r)) =>
      resp[r] = Response(200, ExpectedContributions(CalendarOf(r)))

\* Two weeks of days were flattened.
C4_FlattenedTwoWeeks ==
  \E r \in Reqs :
    /\ pc[r] = "done" /\ Parsed(r) /\ ~DataAbsent(r) /\ ~HasErrorsMember(r)
    /\ Len(Get(CalendarOf(r), "weeks").v) = 2
    /\ Len(Get(resp[r].body, "contributions").v) = MaxDays

(***************************************************************************)
(* The edges of a top-languages reply, and what was emitted for them.      *)
(***************************************************************************)
RECURSIVE EdgesInOrder(_)
EdgesInOrder(nodes) ==
  IF nodes = <<>> THEN <<>>
  ELSE LET edges == Opt(Get(Head(nodes), "languages"), "edges")
       IN  (IF edges.t = "array" THEN edges.v ELSE <<>>) \o EdgesInOrder(Tail(nodes))

InputEdges(r) == EdgesInOrder(Dig(reply[r].body, ExpectedAt("top-languages")).v)

EdgeName(e) == Get(Get(e, "node"), "name").v
EdgeColor(e) == Get(Get(e, "node"), "color")
EdgeSize(e) == Get(e, "size").v

RECURSIVE SumSizes(_)
SumSizes(sizes) == IF sizes = <<>> THEN 0 ELSE Head(sizes) + SumSizes(Tail(sizes))

\* The sum of the sizes of the edges named name.
SizeOf(es, name) ==
  SumSizes([i \in 1..Len(es) |-> IF EdgeName(es[i]) = name THEN EdgeSize(es[i]) ELSE 0])

\* The place of the first edge named name.
FirstSeen(es, name) ==
  CHOOSE i \in 1..Len(es) :
    EdgeName(es[i]) = name /\ \A j \in 1..(i - 1) : EdgeName(es[j]) # name

Emitted(r) == resp[r].body.v

LanguagesAnswered(r) ==
  /\ pc[r] = "done" /\ IsGraphql(r) /\ call[r].route = "top-languages"
  /\ Parsed(r) /\ ~DataAbsent(r) /\ ~HasErrorsMember(r)

(***************************************************************************)
(* C5: the top-languages list has exactly one entry per language name seen *)
(* on an edge, with the summed size of that name's edges and the colour of *)
(* the first edge seen with that name, so the emitted sizes add up to the  *)
(* sum of all edge sizes; when that sum is 0 the list is empty.            *)
(***************************************************************************)
C5_LanguagesAggregated ==
  \A r \in Reqs :
    LanguagesAnswered(r) =>
      LET es == InputEdges(r)
          out == Emitted(r)
          total == SumSizes([i \in 1..Len(es) |-> EdgeSize(es[i])])
      IN  /\ resp[r].status = 200 /\ resp[r].body.t = "array"
          /\ total = 0 => out = <<>>
          /\ total > 0 =>
               /\ {Get(out[i], "name").v : i \in 1..Len(out)}
                    = {EdgeName(es[i]) : i \in 1..Len(es)}
               /\ \A i, j \in 1..Len(out) :
                    Get(out[i], "name") = Get(out[j], "name") => i = j
               /\ \A i \in 1..Len(out) :
                    /\ Get(out[i], "size").v = SizeOf(es, Get(out[i], "name").v)
                    /\ Get(out[i], "color")
                         = EdgeColor(es[FirstSeen(es, Get(out[i], "name").v)])
          /\ SumSizes([i \in 1..Len(out) |-> Get(out[i], "size").v]) = total

\* A language seen on two edges was emitted beside another language.
C5_Witness ==
  \E r \in Reqs :
    /\ LanguagesAnswered(r)
    /\ Len(Emitted(r)) = 2
    /\ Len(InputEdges(r)) = 3
    /\ \A i \in 1..3 : EdgeSize(InputEdges(r)[i]) > 0
    /\ EdgeName(InputEdges(r)[1]) = EdgeName(InputEdges(r)[3])

(***************************************************************************)
(* C6: the top-languages list is ordered by size descending, and languages *)
(* of equal size keep the order in which their names were first met,       *)
(* repositories first and edges within each repository.                    *)
(***************************************************************************)
C6_SortedStable ==
  \A r \in Reqs :
    LanguagesAnswered(r) =>
      LET es == InputEdges(r)
          out == Emitted(r)
      IN  \A i, j \in 1..Len(out) :
            i < j =>
              /\ Get(out[i], "size").v >= Get(out[j], "size").v
              /\ Get(out[i], "size") = Get(out[j], "size") =>
                   FirstSeen(es, Get(out[i], "name").v)
                     < FirstSeen(es, Get(out[j], "name").v)

\* Two languages tie behind a larger one that was met last.
C6_Witness ==
  \E r \in Reqs :
    /\ LanguagesAnswered(r)
    /\ Len(Emitted(r)) = 3
    /\ Get(Emitted(r)[2], "size") = Get(Emitted(r)[3], "size")
    /\ FirstSeen(InputEdges(r), Get(Emitted(r)[1], "name").v) = 3

FirstMessage(r) == Get(Get(reply[r].body, "errors").v[1], "message").v

(***************************************************************************)
(* C7: on a GraphQL route the response is the 500 envelope carrying the    *)
(* first upstream error's message exactly when the upstream body has a     *)
(* non-empty errors list; a body whose errors list is empty is shaped      *)
(* according to its data.                                                  *)
(***************************************************************************)
C7_FailureIffNonEmptyErrors ==
  \A r \in Reqs :
    (pc[r] = "done" /\ IsGraphql(r) /\ Parsed(r)) =>
      IF HasErrors(r)
      THEN resp[r] = Failure(call[r].route, FirstMessage(r))
      ELSE resp[r] = RouteShape(call[r].route, reply[r].body)

\* What the code does: any errors list, empty or not, ends in the 500
\* envelope; the empty list with the message of a TypeError.
C7_AnyErrorsListFails ==
  \A r \in Reqs :
    (pc[r] = "done" /\ IsGraphql(r) /\ Parsed(r)) =>
      IF HasErrorsMember(r)
      THEN resp[r] = Failure(call[r].route,
                             IF HasErrors(r) THEN FirstMessage(r) ELSE TypeErrorUndefined)
      ELSE resp[r] = RouteShape(call[r].route, reply[r].body)

C9_OneCallOneResponse ==
  \A r \in Reqs :
    /\ fetches[r] <= 1
    /\ sends[r] <= 1
    /\ pc[r] = "done" => sends[r] = 1
    /\ pc[r] \in {"await", "settled"} => fetches[r] = 1 /\ sends[r] = 0
    /\ (sends[r] = 1 /\ fetches[r] = 1) => reply[r] # NoReply
    /\ fetches[r] = 0 => reply[r] = NoReply

\* A failed call was answered once and not repeated.
C9_Witness ==
  \E r \in Reqs :
    /\ pc[r] = "done"
    /\ reply[r].t = "reject"
    /\ fetches[r] = 1 /\ sends[r] = 1
    /\ resp[r].status = 500

\* The response to a request for p handled alone, the upstream replying rep.
Alone(p, rep) ==
  IF Dispatch(p).call = NoCall THEN Dispatch(p).resp ELSE Settle(Dispatch(p).call, rep)

(***************************************************************************)
(* C10: under any interleaving, the response to a request is the response  *)
(* the same request would get alone, fixed by its path and the reply to    *)
(* its own call; every request that needs the upstream issues its own      *)
(* call, whatever the other requests asked.                                *)
(***************************************************************************)
C10_Independent ==
  \A r \in Reqs :
    pc[r] # "idle" =>
      /\ call[r] = Dispatch(path[r]).call
      /\ fetches[r] = IF Dispatch(path[r]).call = NoCall THEN 0 ELSE 1
      /\ pc[r] = "done" => resp[r] = Alone(path[r], reply[r])

\* Two identical requests each made their call and got different answers.
C10_Witness ==
  \E r, q \in Reqs :
    /\ r # q
    /\ pc[r] = "done" /\ pc[q] = "done"
    /\ path[r] = path[q]
    /\ fetches[r] = 1 /\ fetches[q] = 1
    /\ reply[r] # reply[q]
    /\ resp[r] # resp[q]

(***************************************************************************)
(* The single-route server forwards every suffix, reserved or not, and     *)
(* answers 200 with the upstream body whatever the upstream status.        *)
(***************************************************************************)
LegacyForwardsEverySuffix ==
  \A r \in Reqs :
    (pc[r] # "idle" /\ MatchGeneric(path[r])) =>
      /\ call[r] = RestCall(Params0(path[r]))
      /\ pc[r] = "done" => resp[r] = Response(200, reply[r].body)

=============================================================================
